---- MODULE Spec2Model ----
(***************************************************************************)
(* Model of the historical test-data caching job                          *)
(* (units/cache_historical_test_data.go).                                  *)
(*                                                                         *)
(* One project, runs serialized by the scheduler.  Timestamps of the sync  *)
(* window (the wall clock, the stored ProcessedTasksUntil, syncFromTime,   *)
(* syncToTime, JobTime) are whole days; the Hour of a stats unit is a      *)
(* record [day, hour] and its Day is the midnight of that day.  Strings    *)
(* that the code inspects character by character (ignore patterns, task    *)
(* names) are sequences of one-character strings.                          *)
(***************************************************************************)
EXTENDS Integers, Sequences, FiniteSets, TLC

\* ------------------------------------------------------------------ bounds
MaxTime == 9
MaxUnits == 2
MaxPatterns == 3
MaxRequests == 2

\* --------------------------------------------------------- program constants
maxSyncDuration == 7

NoTime == 0 - 1

\* ------------------------------------------------------------ string helpers
RECURSIVE TrimLeft(_, _)
TrimLeft(s, cutset) ==
    IF s # <<>> /\ Head(s) \in cutset THEN TrimLeft(Tail(s), cutset) ELSE s

RECURSIVE TrimRight(_, _)
TrimRight(s, cutset) ==
    IF s # <<>> /\ s[Len(s)] \in cutset
    THEN TrimRight(SubSeq(s, 1, Len(s) - 1), cutset)
    ELSE s

\* strings.Trim(s, cutset): all leading and trailing characters of cutset removed
Trim(s, cutset) == TrimRight(TrimLeft(s, cutset), cutset)

\* regexp.Compile on the pattern alphabet used here: letters, " ", tab and "^"
\* are accepted, an unclosed "(" or "[" is a syntax error.
Compile(pattern) ==
    [err |-> \E i \in 1..Len(pattern) : pattern[i] \in {"(", "["},
     re  |-> pattern]

RECURSIVE MatchHere(_, _, _)
MatchHere(re, value, i) ==
    IF re = <<>> THEN TRUE
    ELSE IF Head(re) = "^" THEN i = 1 /\ MatchHere(Tail(re), value, i)
    ELSE i <= Len(value) /\ value[i] = Head(re) /\ MatchHere(Tail(re), value, i + 1)

\* (*Regexp).MatchString: the expression matches somewhere in value
MatchString(re, value) == \E i \in 1..(Len(value) + 1) : MatchHere(re, value, i)

\* ------------------------------------------------------------ pure functions
RECURSIVE createRegexpFrom(_, _, _)
createRegexpFrom(filePatterns, i, tasksToIgnore) ==
    IF i > Len(filePatterns) THEN [err |-> FALSE, res |-> tasksToIgnore]
    ELSE LET pattern == Trim(filePatterns[i], {" "})
         IN  IF pattern # <<>>
             THEN IF Compile(pattern).err
                  THEN [err |-> TRUE, res |-> <<>>]
                  ELSE createRegexpFrom(filePatterns, i + 1,
                                        Append(tasksToIgnore, Compile(pattern).re))
             ELSE createRegexpFrom(filePatterns, i + 1, tasksToIgnore)

createRegexpFromStrings_SkipInvalid(filePatterns) ==
    [err |-> FALSE,
     res |-> SelectSeq([k \in 1..Len(filePatterns) |-> Trim(filePatterns[k], {" "})],
                       LAMBDA p : p # <<>> /\ ~Compile(p).err)]

createRegexpFromStrings(filePatterns) == createRegexpFrom(filePatterns, 1, <<>>)

anyRegexMatch(value, regexList) ==
    \E k \in 1..Len(regexList) : MatchString(regexList[k], value)

filterIgnoredTasks_KeepAll(taskList, tasksToIgnore) == taskList

filterIgnoredTasks(taskList, tasksToIgnore) ==
    SelectSeq(taskList, LAMBDA task : ~anyRegexMatch(task, tasksToIgnore))

\* rollup[day][requester]: a missing key and a nil (empty) slice both read as nil
RollupGet(rollup, day, requester) ==
    IF day \in DOMAIN rollup /\ requester \in DOMAIN rollup[day]
    THEN rollup[day][requester]
    ELSE <<>>

RollupPut(rollup, day, requester, tasks) ==
    LET inner == IF day \in DOMAIN rollup THEN rollup[day] ELSE <<>>
        inner2 == [r \in (DOMAIN inner) \cup {requester} |->
                      IF r = requester THEN tasks ELSE inner[r]]
    IN  [d \in (DOMAIN rollup) \cup {day} |-> IF d = day THEN inner2 ELSE rollup[d]]

RECURSIVE RollupFrom(_, _, _)
RollupFrom(rollup, hourlyStats, i) ==
    IF i > Len(hourlyStats) THEN rollup
    ELSE LET stat == hourlyStats[i]
             cur  == RollupGet(rollup, stat.Day, stat.Requester)
         IN  RollupFrom(
                 IF cur = <<>>
                 THEN RollupPut(rollup, stat.Day, stat.Requester, stat.Tasks)
                 ELSE RollupPut(rollup, stat.Day, stat.Requester, cur \o stat.Tasks),
                 hourlyStats, i + 1)

buildDailyStatsRollup_Dedup(hourlyStats) ==
    LET full == RollupFrom(<<>>, hourlyStats, 1)
        Dedup(s) == SelectSeq([k \in 1..Len(s) |->
                         IF \E m \in 1..(k - 1) : s[m] = s[k] THEN <<>> ELSE s[k]],
                         LAMBDA t : t # <<>>)
    IN  [d \in DOMAIN full |-> [r \in DOMAIN full[d] |-> Dedup(full[d][r])]]

buildDailyStatsRollup_OneDay(hourlyStats) ==
    RollupFrom(<<>>, [k \in 1..Len(hourlyStats) |->
                         [hourlyStats[k] EXCEPT !.Day = hourlyStats[1].Day]], 1)

buildDailyStatsRollup(hourlyStats) == RollupFrom(<<>>, hourlyStats, 1)

findTargetTimeForSync_NoCap(previousSyncTime, now) == now

findTargetTimeForSync_Stall(previousSyncTime, now) == previousSyncTime

findTargetTimeForSync_AlwaysCap(previousSyncTime, now) == previousSyncTime + maxSyncDuration

findTargetTimeForSync(previousSyncTime, now) ==
    LET maxSyncTime == previousSyncTime + maxSyncDuration
    IN  IF maxSyncTime > now THEN now ELSE maxSyncTime


\* ------------------------------------------------------------ input universes
ProjectId == "p"

TaskA == <<"a">>
TaskB == <<"b">>
TaskGenX == <<"g", "x">>
TaskKeepY == <<"k", "y">>

TaskLists == {<<TaskA, TaskB>>, <<TaskGenX, TaskKeepY>>}

\* the (requester, hour) groups of the stats source: two hours of one day, another day,
\* another requester
Groups ==
    {<<"patch", [day |-> 0, hour |-> 10]>>, <<"patch", [day |-> 0, hour |-> 11]>>,
     <<"patch", [day |-> 1, hour |-> 10]>>, <<"mainline", [day |-> 0, hour |-> 10]>>}

\* a stats.StatsToUpdate group: Day is the date of Hour
StatsToUpdate(requester, hour, tasks) ==
    [ProjectId |-> ProjectId, Requester |-> requester, Hour |-> hour,
     Day |-> hour.day, Tasks |-> tasks]

Units == {StatsToUpdate(g[1], g[2], t) : g \in Groups, t \in TaskLists}

\* the stats source groups by (requester, hour): no two units of one result share both
DistinctGroups(units) ==
    \A i, j \in 1..Len(units) :
        i # j => <<units[i].Requester, units[i].Hour>> # <<units[j].Requester, units[j].Hour>>

UnitLists(n) ==
    UNION {{units \in [1..k -> Units] : DistinctGroups(units)} : k \in 0..n}

CaretG == <<"^", "g">>
PaddedY == <<" ", "y", " ">>
Blank == <<" ", " ">>
Unclosed == <<"(", "[">>

\* inputs of the full job runs
RunPatternLists == {<<>>, <<Blank, CaretG>>, <<CaretG, Unclosed>>}
RunUnitLists ==
    {<<>>,
     <<StatsToUpdate("patch", [day |-> 0, hour |-> 10], <<TaskGenX, TaskA>>)>>}

\* inputs of the dispatch runs
DispatchPatternLists == {<<>>, <<CaretG>>, <<CaretG, PaddedY>>}
DispatchUnitLists == UnitLists(MaxUnits)

\* inputs of the pattern compilation: every list of up to MaxPatterns patterns
Tab == <<"\t">>
TabY == <<"\t", "y", " ">>
Patterns == {Blank, CaretG, PaddedY, Unclosed, Tab, TabY}
CompilePatternLists == UNION {[1..n -> Patterns] : n \in 0..MaxPatterns}

\* generateMap of Run
HourlyFns == {"test"}
DailyFns == {"test", "task"}

\* -------------------------------------------------------------------- state
VARIABLES
    clock,          \* wall clock read by time.Now()
    store,          \* ProcessedTasksUntil of the project's stats status document
    pc,             \* position of the job in Run
    cancelled,      \* ctx of Run is done
    jobErrors,      \* number of j.AddError calls of the job
    statsStatus,    \* statsStatus.ProcessedTasksUntil as loaded
    filePatterns,   \* ref.FilesIgnoredFromCache as loaded
    tasksToIgnore,  \* jobContext.TasksToIgnore
    jobTime,        \* jobContext.JobTime
    syncFromTime,
    syncToTime,
    statsToUpdate,
    hourlyFnsLeft,  \* names of HourlyFns the range loop has not visited
    fn,             \* name of the generator of the running iterator
    idx,            \* index of the range loop over stats
    dailyStats,     \* the rollup
    dailyFnsLeft,
    daysLeft,       \* days of the rollup the range loop has not visited
    day,
    reqsLeft,       \* requesters of rollup[day] the range loop has not visited
    calls,          \* external calls of the current run, in order
    storeAtStart,   \* store when the current run began
    prev,           \* window and clock reading of the previous run, if it aborted
    committed,      \* processedUntil of the last UpdateStatsStatus that succeeded
    runsOk,         \* runs that moved the checkpoint forward (counted by CountedUpdate)
    manifests,      \* the manifest collection, by version id
    heads,          \* upstream: head commit of each module's branch
    reqs,           \* the manifest requests being handled
    cli             \* the migration command and what Execute did

envVars == <<clock, store>>
ctxVars == <<statsStatus, filePatterns, tasksToIgnore, jobTime, syncFromTime, syncToTime>>
hourlyVars == <<hourlyFnsLeft, idx>>
dailyVars == <<dailyStats, dailyFnsLeft, daysLeft, day, reqsLeft>>
histVars == <<storeAtStart, prev, committed>>
svcVars == <<manifests, heads, reqs, cli>>
frameVars == <<runsOk, manifests, heads, reqs, cli>>
jobVars == <<clock, store, pc, cancelled, jobErrors, ctxVars, statsToUpdate, hourlyVars, fn,
             dailyVars, calls, histVars, runsOk>>
vars == <<clock, store, pc, cancelled, jobErrors, statsStatus, filePatterns, tasksToIgnore,
          jobTime,
          syncFromTime, syncToTime, statsToUpdate, hourlyFnsLeft, fn, idx, dailyStats,
          dailyFnsLeft, daysLeft, day, reqsLeft, calls, storeAtStart, prev, committed,
          runsOk, manifests, heads, reqs, cli>>

NoPeriod == [day |-> NoTime, hour |-> 0]
Midnight(d) == [day |-> d, hour |-> 0]

\* one external call as the callee sees it
Call(op, name, requester, period, tasks, from, to, ok) ==
    [op |-> op, projectId |-> ProjectId, fn |-> name, requester |-> requester, period |-> period, tasks |-> tasks,
     jobTime |-> jobTime, from |-> from, to |-> to, ok |-> ok, ctxDone |-> cancelled]

PlainCall(op, ok) == Call(op, "", "", NoPeriod, <<>>, NoTime, NoTime, ok)

NoPrev == [window |-> FALSE, from |-> NoTime, to |-> NoTime, now |-> NoTime]

FreshJob ==
    /\ cancelled = FALSE
    /\ jobErrors = 0
    /\ statsStatus = NoTime
    /\ filePatterns = <<>>
    /\ tasksToIgnore = <<>>
    /\ jobTime = NoTime
    /\ syncFromTime = NoTime
    /\ syncToTime = NoTime
    /\ statsToUpdate = <<>>
    /\ hourlyFnsLeft = {}
    /\ fn = ""
    /\ idx = 0
    /\ dailyStats = <<>>
    /\ dailyFnsLeft = {}
    /\ daysLeft = {}
    /\ day = NoTime
    /\ reqsLeft = {}
    /\ calls = <<>>

\* no manifest request and no migration command
NoService ==
    /\ manifests = {}
    /\ heads = <<>>
    /\ reqs = <<>>
    /\ cli = <<>>

Init ==
    /\ clock = 0
    /\ store = 0
    /\ pc = "idle"
    /\ FreshJob
    /\ storeAtStart = 0
    /\ prev = NoPrev
    /\ committed = 0
    /\ runsOk = 0
    /\ NoService

InitDispatch ==
    /\ clock = 1
    /\ store = 0
    /\ pc = "idle"
    /\ FreshJob
    /\ storeAtStart = 0
    /\ prev = NoPrev
    /\ committed = 0
    /\ runsOk = 0
    /\ NoService

\* j.AddError(...); return, with the deferred j.MarkComplete()
AddErrorAndReturn_Swallow ==
    /\ jobErrors' = jobErrors
    /\ pc' = "done"

AddErrorAndReturn ==
    /\ jobErrors' = jobErrors + 1
    /\ pc' = "done"

\* ---------------------------------------------------------------- environment
Tick ==
    /\ pc = "idle"
    /\ clock < MaxTime
    /\ clock' = clock + 1
    /\ UNCHANGED <<store, pc, cancelled, jobErrors, ctxVars, statsToUpdate, hourlyVars, fn,
                   dailyVars, calls, histVars>>
    /\ UNCHANGED frameVars

\* the wall clock is stepped back (clock adjustment, or the next run is on another host)
ClockStepBack ==
    /\ pc = "idle"
    /\ clock > 0
    /\ clock' = clock - 1
    /\ UNCHANGED <<store, pc, cancelled, jobErrors, ctxVars, statsToUpdate, hourlyVars, fn,
                   dailyVars, calls, histVars>>
    /\ UNCHANGED frameVars

Cancel ==
    /\ pc \notin {"idle", "done"}
    /\ ~cancelled
    /\ cancelled' = TRUE
    /\ UNCHANGED <<envVars, pc, jobErrors, ctxVars, statsToUpdate, hourlyVars, fn, dailyVars,
                   calls, histVars>>
    /\ UNCHANGED frameVars

\* ------------------------------------------------------------------------ Run
\* the finished job is dropped and the scheduler creates the next one for the project
NewCacheHistoricalTestDataJob ==
    /\ pc = "done"
    /\ prev' = IF jobErrors > 0 /\ syncToTime # NoTime
               THEN [window |-> TRUE, from |-> syncFromTime, to |-> syncToTime,
                     now |-> jobTime]
               ELSE NoPrev
    /\ pc' = "idle"
    /\ cancelled' = FALSE
    /\ jobErrors' = 0
    /\ statsStatus' = NoTime
    /\ filePatterns' = <<>>
    /\ tasksToIgnore' = <<>>
    /\ jobTime' = NoTime
    /\ syncFromTime' = NoTime
    /\ syncToTime' = NoTime
    /\ statsToUpdate' = <<>>
    /\ hourlyFnsLeft' = {}
    /\ fn' = ""
    /\ idx' = 0
    /\ dailyStats' = <<>>
    /\ dailyFnsLeft' = {}
    /\ daysLeft' = {}
    /\ day' = NoTime
    /\ reqsLeft' = {}
    /\ calls' = <<>>
    /\ storeAtStart' = store
    /\ UNCHANGED <<envVars, committed>>
    /\ UNCHANGED frameVars

\* Run begins: stats.GetStatsStatus
RunStart ==
    /\ pc = "idle"
    /\ storeAtStart' = store
    /\ \E ok \in BOOLEAN :
        /\ calls' = <<PlainCall("GetStatsStatus", ok)>>
        /\ IF ok
           THEN /\ statsStatus' = store
                /\ pc' = "getTasksToIgnore"
                /\ UNCHANGED jobErrors
           ELSE /\ AddErrorAndReturn
                /\ UNCHANGED statsStatus
    /\ UNCHANGED <<envVars, cancelled, filePatterns, tasksToIgnore, jobTime, syncFromTime,
                   syncToTime, statsToUpdate, hourlyVars, fn, dailyVars, prev, committed>>
    /\ UNCHANGED frameVars

\* getTasksToIgnore, then the job context and the window
GetTasksToIgnore(patternLists) ==
    /\ pc = "getTasksToIgnore"
    /\ \E ok \in BOOLEAN, patterns \in patternLists :
        LET compiled == createRegexpFromStrings(patterns)
        IN  /\ calls' = Append(calls, PlainCall("FindOneProjectRef", ok))
            /\ filePatterns' = IF ok THEN patterns ELSE filePatterns
            /\ IF ok /\ ~compiled.err
               THEN /\ tasksToIgnore' = compiled.res
                    /\ jobTime' = clock
                    /\ syncFromTime' = statsStatus
                    /\ syncToTime' = findTargetTimeForSync(statsStatus, clock)
                    /\ pc' = "findStats"
                    /\ UNCHANGED jobErrors
               ELSE /\ AddErrorAndReturn
                    /\ UNCHANGED <<tasksToIgnore, jobTime, syncFromTime, syncToTime>>
    /\ UNCHANGED <<envVars, cancelled, statsStatus, statsToUpdate, hourlyVars, fn, dailyVars,
                   histVars>>
    /\ UNCHANGED frameVars

\* updateHourlyAndDailyStats: the hourly loop, the rollup, the daily loop
StageAfter_DailyFirst(stage) ==
    CASE stage = "findStats" -> "dailyFns"
      [] stage = "dailyFns" -> "hourlyFns"
      [] stage = "hourlyFns" -> "updateStatus"

StageAfter(stage) ==
    CASE stage = "findStats" -> "hourlyFns"
      [] stage = "hourlyFns" -> "dailyFns"
      [] stage = "dailyFns" -> "updateStatus"

EnterStage(stage, stats) ==
    /\ pc' = stage
    /\ hourlyFnsLeft' = IF stage = "hourlyFns" THEN HourlyFns ELSE hourlyFnsLeft
    /\ dailyFnsLeft' = IF stage = "dailyFns" THEN DailyFns ELSE dailyFnsLeft
    /\ dailyStats' = IF stage = "dailyFns" THEN buildDailyStatsRollup(stats) ELSE dailyStats

FindStatsToUpdate(unitLists) ==
    /\ pc = "findStats"
    /\ \E ok \in BOOLEAN, units \in unitLists :
        /\ calls' = Append(calls, Call("FindStatsToUpdate", "", "", NoPeriod, <<>>,
                                       syncFromTime, syncToTime, ok))
        /\ IF ok
           THEN /\ statsToUpdate' = units
                /\ EnterStage(StageAfter("findStats"), units)
                /\ UNCHANGED jobErrors
           ELSE /\ AddErrorAndReturn
                /\ UNCHANGED <<statsToUpdate, hourlyFnsLeft, dailyFnsLeft, dailyStats>>
    /\ UNCHANGED <<envVars, cancelled, ctxVars, fn, idx, daysLeft, day, reqsLeft, histVars>>
    /\ UNCHANGED frameVars

\* for name, genFn := range generateFns.HourlyFns
HourlyFnLoop ==
    /\ pc = "hourlyFns"
    /\ IF hourlyFnsLeft = {}
       THEN /\ EnterStage(StageAfter("hourlyFns"), statsToUpdate)
            /\ UNCHANGED <<fn, idx>>
       ELSE \E name \in hourlyFnsLeft :
                /\ hourlyFnsLeft' = hourlyFnsLeft \ {name}
                /\ fn' = name
                /\ idx' = 1
                /\ pc' = "hourly"
                /\ UNCHANGED <<dailyFnsLeft, dailyStats>>
    /\ UNCHANGED <<envVars, cancelled, jobErrors, ctxVars, statsToUpdate, daysLeft, day,
                   reqsLeft, calls, histVars>>
    /\ UNCHANGED frameVars

\* a generator returned an error: the iterator, updateHourlyAndDailyStats and Run return
OnGeneratorError_Continue(next) ==
    /\ pc' = next
    /\ UNCHANGED jobErrors

OnGeneratorError(next) == AddErrorAndReturn

\* iteratorOverHourlyStats: one pass of the loop over stats
HourlyStep ==
    /\ pc = "hourly"
    /\ IF idx > Len(statsToUpdate)
       THEN /\ pc' = "hourlyFns"
            /\ UNCHANGED <<idx, calls, jobErrors>>
       ELSE LET stat == statsToUpdate[idx]
                taskList == filterIgnoredTasks(stat.Tasks, tasksToIgnore)
            IN  /\ idx' = idx + 1
                /\ IF Len(taskList) > 0
                   THEN \E ok \in BOOLEAN :
                        /\ calls' = Append(calls,
                                [Call("hourly", fn, stat.Requester, stat.Hour, taskList,
                                      NoTime, NoTime, ok) EXCEPT !.projectId = stat.ProjectId])
                        /\ IF ok
                           THEN UNCHANGED <<pc, jobErrors>>
                           ELSE OnGeneratorError("hourly")
                   ELSE UNCHANGED <<pc, calls, jobErrors>>
    /\ UNCHANGED <<envVars, cancelled, ctxVars, statsToUpdate, hourlyFnsLeft, fn, dailyVars,
                   histVars>>
    /\ UNCHANGED frameVars

\* for name, genFn := range generateFns.DailyFns
DailyFnLoop ==
    /\ pc = "dailyFns"
    /\ IF dailyFnsLeft = {}
       THEN /\ EnterStage(StageAfter("dailyFns"), statsToUpdate)
            /\ UNCHANGED <<fn, daysLeft>>
       ELSE \E name \in dailyFnsLeft :
                /\ dailyFnsLeft' = dailyFnsLeft \ {name}
                /\ fn' = name
                /\ daysLeft' = DOMAIN dailyStats
                /\ pc' = "dailyDays"
                /\ UNCHANGED <<hourlyFnsLeft, dailyStats>>
    /\ UNCHANGED <<envVars, cancelled, jobErrors, ctxVars, statsToUpdate, idx, day, reqsLeft,
                   calls, histVars>>
    /\ UNCHANGED frameVars

\* iteratorOverDailyStats: for day, stats := range dailyStats
DailyDayLoop ==
    /\ pc = "dailyDays"
    /\ IF daysLeft = {}
       THEN /\ pc' = "dailyFns"
            /\ UNCHANGED <<daysLeft, day, reqsLeft>>
       ELSE \E d \in daysLeft :
                /\ daysLeft' = daysLeft \ {d}
                /\ day' = d
                /\ reqsLeft' = DOMAIN dailyStats[d]
                /\ pc' = "dailyReqs"
    /\ UNCHANGED <<envVars, cancelled, jobErrors, ctxVars, statsToUpdate, hourlyVars, fn,
                   dailyStats, dailyFnsLeft, calls, histVars>>
    /\ UNCHANGED frameVars

\* iteratorOverDailyStats: the task list of one bucket
DailyTaskList_Unfiltered(tasks) == tasks

DailyTaskList(tasks) == filterIgnoredTasks(tasks, tasksToIgnore)

\* iteratorOverDailyStats: for requester, tasks := range stats
DailyStep ==
    /\ pc = "dailyReqs"
    /\ IF reqsLeft = {}
       THEN /\ pc' = "dailyDays"
            /\ UNCHANGED <<reqsLeft, calls, jobErrors>>
       ELSE \E requester \in reqsLeft :
            LET taskList == DailyTaskList(dailyStats[day][requester])
            IN  /\ reqsLeft' = reqsLeft \ {requester}
                /\ IF Len(taskList) > 0
                   THEN \E ok \in BOOLEAN :
                        /\ calls' = Append(calls, Call("daily", fn, requester, Midnight(day),
                                                       taskList, NoTime, NoTime, ok))
                        /\ IF ok
                           THEN UNCHANGED <<pc, jobErrors>>
                           ELSE OnGeneratorError("dailyReqs")
                   ELSE UNCHANGED <<pc, calls, jobErrors>>
    /\ UNCHANGED <<envVars, cancelled, ctxVars, statsToUpdate, hourlyVars, fn, dailyStats,
                   dailyFnsLeft, daysLeft, day, histVars>>
    /\ UNCHANGED frameVars

\* stats.UpdateStatsStatus(j.ProjectId, jobContext.JobTime, syncToTime)
UpdateStatsStatus_SwappedTimes ==
    /\ pc = "updateStatus"
    /\ \E ok \in BOOLEAN :
        /\ calls' = Append(calls, Call("UpdateStatsStatus", "", "", NoPeriod, <<>>, NoTime,
                                       jobTime, ok))
        /\ IF ok
           THEN /\ store' = jobTime
                /\ committed' = jobTime
                /\ pc' = "done"
                /\ UNCHANGED jobErrors
           ELSE /\ AddErrorAndReturn
                /\ UNCHANGED <<store, committed>>
    /\ UNCHANGED <<clock, cancelled, ctxVars, statsToUpdate, hourlyVars, fn, dailyVars,
                   storeAtStart, prev>>
    /\ UNCHANGED svcVars

UpdateStatsStatus ==
    /\ pc = "updateStatus"
    /\ \E ok \in BOOLEAN :
        /\ calls' = Append(calls, Call("UpdateStatsStatus", "", "", NoPeriod, <<>>, NoTime,
                                       syncToTime, ok))
        /\ IF ok
           THEN /\ store' = syncToTime
                /\ committed' = syncToTime
                /\ pc' = "done"
                /\ UNCHANGED jobErrors
           ELSE /\ AddErrorAndReturn
                /\ UNCHANGED <<store, committed>>
    /\ UNCHANGED <<clock, cancelled, ctxVars, statsToUpdate, hourlyVars, fn, dailyVars,
                   storeAtStart, prev>>
    /\ UNCHANGED svcVars

\* the update as a step of a run that is not counted
UpdateStep == UpdateStatsStatus /\ UNCHANGED runsOk

Dispatch ==
    \/ HourlyFnLoop
    \/ HourlyStep
    \/ DailyFnLoop
    \/ DailyDayLoop
    \/ DailyStep

Next ==
    \/ Tick
    \/ ClockStepBack
    \/ Cancel
    \/ NewCacheHistoricalTestDataJob
    \/ RunStart
    \/ GetTasksToIgnore(RunPatternLists)
    \/ FindStatsToUpdate(RunUnitLists)
    \/ Dispatch
    \/ UpdateStep

Spec == Init /\ [][Next]_vars

\* one run of the job over every result of the stats source, the clock held
NextDispatch ==
    \/ RunStart
    \/ GetTasksToIgnore(DispatchPatternLists)
    \/ FindStatsToUpdate(DispatchUnitLists)
    \/ Dispatch
    \/ UpdateStep

SpecDispatch == InitDispatch /\ [][NextDispatch]_vars

\* the start of a run up to the compilation of the ignore patterns, over every
\* pattern list
NextCompile ==
    \/ RunStart
    \/ GetTasksToIgnore(CompilePatternLists)

SpecCompile == InitDispatch /\ [][NextCompile]_vars

\* ------------------------------------------------------ manifestLoadHandler
StatusOK == 200
StatusBadRequest == 400
StatusInternalServerError == 500

Requests == 1..MaxRequests
\* task.Version of a request: a build version, or none
Versions == {"v1", ""}
\* project.Modules, in declared order
Modules == <<"m1", "m2">>
ModuleNames == {Modules[i] : i \in 1..Len(Modules)}
\* commits a module's branch head can be at
FirstCommit == "c1"
PushedCommit == "c2"

NoModules == [m \in {} |-> FirstCommit]
\* a nil *manifest.Manifest
Nil == [Id |-> "", Modules |-> NoModules, nil |-> TRUE]

\* the request's task, the handler's position and locals, its response, and the
\* calls it made to the upstream API and to TryInsert
NewRequest(version) ==
    [task |-> [Version |-> version], pc |-> "start", currentManifest |-> Nil, idx |-> 0,
     modules |-> NoModules, status |-> 0, body |-> Nil, cause |-> "",
     queries |-> <<>>, inserts |-> 0]

InitManifest ==
    /\ clock = 0
    /\ store = 0
    /\ pc = "idle"
    /\ FreshJob
    /\ storeAtStart = 0
    /\ prev = NoPrev
    /\ committed = 0
    /\ runsOk = 0
    /\ manifests = {}
    /\ heads = [m \in ModuleNames |-> FirstCommit]
    /\ reqs \in [Requests -> {NewRequest(v) : v \in Versions}]
    /\ cli = <<>>

\* manifest.FindOne(manifest.ById(id))
FindOne(id) ==
    IF \E m \in manifests : m.Id = id
    THEN CHOOSE m \in manifests : m.Id = id
    ELSE Nil

Returned(q, status, body, cause) ==
    [q EXCEPT !.pc = "done", !.status = status, !.body = body, !.cause = cause]

LoggedError(q, status, cause) == Returned(q, status, Nil, cause)

WriteJSON(q, m) == Returned(q, StatusOK, m, "")

\* model.FindOneProjectRef, model.FindProject, project == nil
ResolveProject(r) ==
    /\ reqs[r].pc = "start"
    /\ \E outcome \in {"projectRef", "project", "emptyProject", "ok"} :
        reqs' = [reqs EXCEPT ![r] =
                    IF outcome = "ok"
                    THEN [@ EXCEPT !.pc = "find"]
                    ELSE LoggedError(@, StatusBadRequest, outcome)]
    /\ UNCHANGED <<manifests, heads, cli, jobVars>>

AfterFind_AlwaysCreate(currentManifest, version) ==
    IF version = "" THEN "emptyVersion" ELSE "modules"

\* what the handler does with the result of the first lookup
AfterFind(currentManifest, version) ==
    IF ~currentManifest.nil THEN "found"
    ELSE IF version = "" THEN "emptyVersion"
    ELSE "modules"

\* try to get the manifest
FindManifest(r) ==
    /\ reqs[r].pc = "find"
    /\ \E ok \in BOOLEAN :
        LET currentManifest == FindOne(reqs[r].task.Version)
            q == [reqs[r] EXCEPT !.currentManifest = currentManifest]
            next == AfterFind(currentManifest, q.task.Version)
        IN  reqs' = [reqs EXCEPT ![r] =
                CASE ~ok -> LoggedError(reqs[r], StatusBadRequest, "find")
                  [] ok /\ next = "found" -> WriteJSON(q, currentManifest)
                  [] ok /\ next = "emptyVersion" ->
                        LoggedError(q, StatusBadRequest, "emptyVersion")
                  [] OTHER -> [q EXCEPT !.pc = "modules", !.idx = 1]]
    /\ UNCHANGED <<manifests, heads, cli, jobVars>>

\* one iteration of the loop over project.Modules
QueryModule(r) ==
    /\ reqs[r].pc = "modules"
    /\ \E outcome \in {"token", "branch", "ok"} :
        LET q == reqs[r]
            module == Modules[q.idx]
            asked == [q EXCEPT !.queries = Append(@, module)]
        IN  reqs' = [reqs EXCEPT ![r] =
                CASE outcome = "token" ->
                        LoggedError(q, StatusInternalServerError, "token")
                  [] outcome = "branch" ->
                        LoggedError(asked, StatusInternalServerError, "branch")
                  [] OTHER ->
                        [asked EXCEPT
                            !.modules = [m \in (DOMAIN q.modules) \cup {module} |->
                                            IF m = module THEN heads[module]
                                            ELSE q.modules[m]],
                            !.idx = q.idx + 1,
                            !.pc = IF q.idx = Len(Modules) THEN "insert" ELSE "modules"]]
    /\ UNCHANGED <<manifests, heads, cli, jobVars>>

newManifest(q) == [Id |-> q.task.Version, Modules |-> q.modules, nil |-> FALSE]

AfterInsert_NoReread(duplicate) == "write"

\* if it is a duplicate, load the manifest again
AfterInsert(duplicate) == IF duplicate THEN "reread" ELSE "write"

\* the collection holds at most one manifest of an id: an insert of a second one is
\* refused with a duplicate key error
DuplicateKey(m) == \E x \in manifests : x.Id = m.Id

\* newManifest.TryInsert(): a duplicate key is reported, not an error
TryInsert(r) ==
    /\ reqs[r].pc = "insert"
    /\ \E ok \in BOOLEAN :
        LET q == [reqs[r] EXCEPT !.inserts = @ + 1]
            duplicate == DuplicateKey(newManifest(q))
        IN  IF ~ok
            THEN /\ reqs' = [reqs EXCEPT ![r] =
                                LoggedError(q, StatusInternalServerError, "insert")]
                 /\ UNCHANGED manifests
            ELSE /\ manifests' = IF duplicate THEN manifests
                                 ELSE manifests \cup {newManifest(q)}
                 /\ reqs' = [reqs EXCEPT ![r] =
                                IF AfterInsert(duplicate) = "reread"
                                THEN [q EXCEPT !.pc = "reread"]
                                ELSE WriteJSON(q, newManifest(q))]
    /\ UNCHANGED <<heads, cli, jobVars>>

\* the second lookup, after a duplicate
Reread(r) ==
    /\ reqs[r].pc = "reread"
    /\ \E ok \in BOOLEAN :
        LET q == reqs[r]
            m == FindOne(q.task.Version)
        IN  reqs' = [reqs EXCEPT ![r] =
                CASE ~ok -> LoggedError(q, StatusBadRequest, "reread")
                  [] ok /\ ~m.nil -> WriteJSON(q, m)
                  [] OTHER -> WriteJSON(q, newManifest(q))]
    /\ UNCHANGED <<manifests, heads, cli, jobVars>>

\* a push to a module's branch upstream moves its head
UpstreamPush ==
    /\ \E m \in ModuleNames :
        /\ heads[m] = FirstCommit
        /\ heads' = [heads EXCEPT ![m] = PushedCommit]
    /\ UNCHANGED <<manifests, reqs, cli, jobVars>>

NextManifest ==
    \/ \E r \in Requests : ResolveProject(r)
    \/ \E r \in Requests : FindManifest(r)
    \/ \E r \in Requests : QueryModule(r)
    \/ \E r \in Requests : TryInsert(r)
    \/ \E r \in Requests : Reread(r)
    \/ UpstreamPush

SpecManifest == InitManifest /\ [][NextManifest]_vars

\* --------------------------------------------------------- MigrationCommand
migrationFeatureDisabled_Enabled == FALSE

migrationFeatureDisabled == TRUE

\* the flags --conf, --mongodburi and --dry-run, and the positional arguments
ConfigPaths == {"/etc/mci_settings.yml", "/tmp/settings.yml", ""}
MongoDBURIs == {"", "mongodb://a", "mongodb://b"}
ArgLists == {<<>>, <<"x">>, <<"x", "y">>}

MigrationCommand(conf, uri, dryRun, args) ==
    [ConfigPath |-> conf, MongoDBURI |-> uri, DryRun |-> dryRun, args |-> args,
     pc |-> "parsed", err |-> "", done |-> <<>>]

InitMigration ==
    /\ clock = 0
    /\ store = 0
    /\ pc = "idle"
    /\ FreshJob
    /\ storeAtStart = 0
    /\ prev = NoPrev
    /\ committed = 0
    /\ runsOk = 0
    /\ manifests = {}
    /\ heads = <<>>
    /\ reqs = <<>>
    /\ cli \in {MigrationCommand(conf, uri, dryRun, args) :
                    conf \in ConfigPaths, uri \in MongoDBURIs, dryRun \in BOOLEAN,
                    args \in ArgLists}

\* the steps of Execute after the feature switch, and the error each returns
ExecuteSteps == <<"NewSettings", "Validate", "Setup", "Application", "Run">>

ExecuteErrors ==
    <<"problem getting settings", "problem validating settings",
      "problem setting up migration environment",
      "problem configuring migration application",
      "problem running migration operation">>

\* Execute: failAt is the step that returns an error, 0 if none does
Execute ==
    /\ cli.pc = "parsed"
    /\ IF migrationFeatureDisabled
       THEN cli' = [cli EXCEPT !.pc = "returned",
                               !.err = "migrations are not enabled in this build"]
       ELSE \E failAt \in 0..Len(ExecuteSteps) :
               cli' = [cli EXCEPT
                   !.pc = "returned",
                   !.err = IF failAt = 0 THEN "" ELSE ExecuteErrors[failAt],
                   !.done = IF failAt = 0 THEN ExecuteSteps
                            ELSE SubSeq(ExecuteSteps, 1, failAt),
                   !.MongoDBURI = IF cli.MongoDBURI = "" /\ (failAt = 0 \/ failAt > 2)
                                  THEN "settings.Database.Url" ELSE cli.MongoDBURI]
    /\ UNCHANGED <<manifests, heads, reqs, jobVars>>

NextMigration == Execute

SpecMigration == InitMigration /\ [][NextMigration]_vars

\* ------------------------------------------------ repeated runs, clock held
\* the clock readings from which the checkpoint is caught up, and the number of runs
\* after which it has caught up with any of them
MaxLag == MaxTime + maxSyncDuration
MaxRuns == (MaxLag \div maxSyncDuration) + 1

InitCatchUp ==
    /\ clock \in 0..MaxLag
    /\ store = 0
    /\ pc = "idle"
    /\ FreshJob
    /\ storeAtStart = 0
    /\ prev = NoPrev
    /\ committed = 0
    /\ runsOk = 0
    /\ NoService

\* the update as the last step of a run that is counted when it succeeds
CountedUpdate ==
    /\ UpdateStatsStatus
    /\ runsOk' = IF jobErrors' = jobErrors /\ runsOk < MaxRuns THEN runsOk + 1 ELSE runsOk

\* the steps of a run after its first: Run goes on until it returns
RunSteps ==
    \/ GetTasksToIgnore(RunPatternLists)
    \/ FindStatsToUpdate(RunUnitLists)
    \/ Dispatch
    \/ CountedUpdate

NextCatchUp ==
    \/ NewCacheHistoricalTestDataJob
    \/ RunStart
    \/ GetTasksToIgnore(RunPatternLists)
    \/ FindStatsToUpdate(RunUnitLists)
    \/ Dispatch
    \/ CountedUpdate

SpecCatchUp == InitCatchUp /\ [][NextCatchUp]_vars /\ WF_vars(RunSteps)

\* ===================================================================== claims
IsGenerator(c) == c.op \in {"hourly", "daily"}
Updates == {i \in 1..Len(calls) : calls[i].op = "UpdateStatsStatus"}
HasCall(op) == \E i \in 1..Len(calls) : calls[i].op = op
Min(a, b) == IF a < b THEN a ELSE b

\* some pattern of the list is not a valid expression once trimmed
HasInvalidPattern(patterns) ==
    \E k \in 1..Len(patterns) : \E i \in 1..Len(patterns[k]) : patterns[k][i] \in {"(", "["}

\* C1: the checkpoint is written at most once per run, as the last external call, with
\* processedUntil = the run's `to`, and only after the checkpoint load, the ignore
\* pattern load and compile, the unit fetch and every generator call succeeded; a run
\* that records an error leaves the stored checkpoint at its value before the run.
C1_CheckpointCommit ==
    /\ Cardinality(Updates) <= 1
    /\ \A i \in Updates :
        /\ i = Len(calls)
        /\ syncToTime # NoTime
        /\ calls[i].to = syncToTime
        /\ \A k \in 1..(i - 1) : calls[k].ok
        /\ HasCall("GetStatsStatus") /\ HasCall("FindOneProjectRef")
        /\ HasCall("FindStatsToUpdate")
        /\ ~HasInvalidPattern(filePatterns)
        /\ pc = "done"
    /\ store = IF \E i \in Updates : calls[i].ok THEN syncToTime ELSE storeAtStart
    /\ jobErrors > 0 => store = storeAtStart

C1_Witness ==
    /\ pc = "done"
    /\ jobErrors = 0
    /\ store # storeAtStart
    /\ \E i \in 1..Len(calls) : IsGenerator(calls[i])
    /\ jobTime # syncToTime

\* C2: the stored ProcessedUntil never decreases: after every run it is at least its
\* value before that run, whatever the clock read.
C2_NeverDecreases == store >= storeAtStart

\* C3: once a generator call returns an error, the run makes no further external call
\* (no generator of either stage, no checkpoint update) and the checkpoint keeps its
\* value; after a failed hourly call no daily generator is called.
C3_FailFast ==
    \A i \in 1..Len(calls) :
        (IsGenerator(calls[i]) /\ ~calls[i].ok) =>
            /\ i = Len(calls)
            /\ pc = "done"
            /\ store = storeAtStart
            /\ calls[i].op = "hourly" => ~HasCall("daily")

C3_Witness ==
    /\ pc = "done"
    /\ calls[Len(calls)].op = "hourly"
    /\ ~calls[Len(calls)].ok
    /\ idx <= Len(statsToUpdate)
    /\ filterIgnoredTasks(statsToUpdate[idx].Tasks, tasksToIgnore) # <<>>

\* C4: every hourly generator call precedes every daily generator call, and a daily
\* generator is called only after every hourly generator returned success for every
\* unit whose filtered task list is not empty.
C4_StageOrder ==
    /\ \A i, j \in 1..Len(calls) :
        (calls[i].op = "daily" /\ calls[j].op = "hourly") => j < i
    /\ HasCall("daily") =>
        \A name \in HourlyFns : \A k \in 1..Len(statsToUpdate) :
            (\E t \in 1..Len(statsToUpdate[k].Tasks) :
                ~anyRegexMatch(statsToUpdate[k].Tasks[t], tasksToIgnore)) =>
            \E i \in 1..Len(calls) :
                /\ calls[i].op = "hourly" /\ calls[i].ok /\ calls[i].fn = name
                /\ calls[i].requester = statsToUpdate[k].Requester
                /\ calls[i].period = statsToUpdate[k].Hour
                /\ \A j \in 1..Len(calls) : calls[j].op = "daily" => i < j

C4_Witness ==
    /\ calls # <<>>
    /\ calls[Len(calls)].op = "daily"
    /\ Cardinality({i \in 1..Len(calls) : calls[i].op = "hourly"}) >= 2

\* C5 as claimed: the run after an aborted run passes the same from and the same to
\* to the unit fetch although the clock has advanced.
C5_SameWindow ==
    (prev.window /\ syncToTime # NoTime /\ jobTime > prev.now) =>
        (syncFromTime = prev.from /\ syncToTime = prev.to)

\* C5 as amended: the run after an aborted run passes the same from; its to is computed
\* anew from the clock, min(now, from + 7 days): it is not earlier than the aborted
\* run's to when the clock has not gone back, and it is the same to when the aborted
\* run's window was already as long as 7 days.
C5_ResumeWindow ==
    (prev.window /\ syncToTime # NoTime) =>
        /\ syncFromTime = prev.from
        /\ syncToTime = Min(jobTime, prev.from + maxSyncDuration)
        /\ jobTime >= prev.now => syncToTime >= prev.to
        /\ (jobTime >= prev.now /\ prev.to = prev.from + maxSyncDuration) =>
                syncToTime = prev.to

C5_Witness ==
    /\ prev.window
    /\ syncToTime # NoTime
    /\ jobTime > prev.now
    /\ syncFromTime = prev.from
    /\ syncToTime > prev.to

\* C6: the window of a run is from = lastProcessed, to = min(now, lastProcessed + 7
\* days); to - from never exceeds 7 days.
C6_Window ==
    syncToTime # NoTime =>
        /\ syncFromTime = storeAtStart
        /\ syncToTime = Min(jobTime, storeAtStart + maxSyncDuration)
        /\ syncToTime - syncFromTime <= maxSyncDuration
        /\ jobTime - storeAtStart <= maxSyncDuration => syncToTime = jobTime
        /\ jobTime - storeAtStart >= maxSyncDuration =>
                syncToTime = storeAtStart + maxSyncDuration

C6_Witness ==
    /\ syncToTime # NoTime
    /\ jobTime > storeAtStart + maxSyncDuration
    /\ syncToTime = storeAtStart + maxSyncDuration

\* C7: a run whose ignore patterns cannot be loaded or do not all compile ends before
\* the unit fetch: no fetch, no generator call, the checkpoint unchanged.
C7_ConfigAbort ==
    \A i \in 1..Len(calls) :
        (calls[i].op = "FindOneProjectRef"
            /\ (~calls[i].ok \/ HasInvalidPattern(filePatterns))) =>
            /\ i = Len(calls)
            /\ pc = "done"
            /\ jobErrors = 1
            /\ ~HasCall("FindStatsToUpdate")
            /\ \A k \in 1..Len(calls) : ~IsGenerator(calls[k])
            /\ store = storeAtStart

C7_Witness ==
    /\ pc = "done"
    /\ HasInvalidPattern(filePatterns)
    /\ calls[Len(calls)].op = "FindOneProjectRef"
    /\ calls[Len(calls)].ok

\* C8: once the run's context is cancelled, the run issues no further generator call
\* and no checkpoint update, and ends with the checkpoint unchanged.
C8_CancellationHonored ==
    /\ \A i \in 1..Len(calls) :
        (IsGenerator(calls[i]) \/ calls[i].op = "UpdateStatsStatus") => ~calls[i].ctxDone
    /\ (cancelled /\ pc = "done") => store = storeAtStart

\* the units of the fetch that fold into the bucket (d, requester)
InBucket(k, d, requester) ==
    statsToUpdate[k].Day = d /\ statsToUpdate[k].Requester = requester

SeqHas(seq, x) == \E i \in 1..Len(seq) : seq[i] = x

\* C9: no task name matched by a compiled ignore pattern is in the task list of any
\* generator call, hourly or daily; a task name of a unit that was left out of the
\* unit's hourly call is not in the daily call of the bucket the unit folds into.
C9_FilteredEverywhere ==
    /\ \A i \in 1..Len(calls) : IsGenerator(calls[i]) =>
        \A t \in 1..Len(calls[i].tasks) : \A k \in 1..Len(tasksToIgnore) :
            ~MatchString(tasksToIgnore[k], calls[i].tasks[t])
    /\ \A i \in 1..Len(calls) : calls[i].op = "daily" =>
        \A k \in 1..Len(statsToUpdate) :
            InBucket(k, calls[i].period.day, calls[i].requester) =>
            \A t \in 1..Len(statsToUpdate[k].Tasks) :
                SeqHas(calls[i].tasks, statsToUpdate[k].Tasks[t]) =>
                \E h \in 1..Len(calls) :
                    /\ calls[h].op = "hourly"
                    /\ calls[h].requester = statsToUpdate[k].Requester
                    /\ calls[h].period = statsToUpdate[k].Hour
                    /\ SeqHas(calls[h].tasks, statsToUpdate[k].Tasks[t])

C9_Witness ==
    \E i \in 1..Len(calls) :
        /\ calls[i].op = "daily"
        /\ \E k \in 1..Len(statsToUpdate) :
            /\ InBucket(k, calls[i].period.day, calls[i].requester)
            /\ \E t \in 1..Len(statsToUpdate[k].Tasks) :
                ~SeqHas(calls[i].tasks, statsToUpdate[k].Tasks[t])

\* the filtered task lists of the units of bucket (d, requester), in fetch order
RECURSIVE FoldBucket(_, _, _)
FoldBucket(k, d, requester) ==
    IF k > Len(statsToUpdate) THEN <<>>
    ELSE (IF InBucket(k, d, requester)
          THEN SelectSeq(statsToUpdate[k].Tasks,
                         LAMBDA task : \A m \in 1..Len(tasksToIgnore) :
                                           ~MatchString(tasksToIgnore[m], task))
          ELSE <<>>) \o FoldBucket(k + 1, d, requester)

DailyCallsOf(name, d, requester) ==
    {i \in 1..Len(calls) : /\ calls[i].op = "daily" /\ calls[i].fn = name
                           /\ calls[i].period = Midnight(d)
                           /\ calls[i].requester = requester}

\* C10: the task list of a daily generator call is the concatenation, in fetch order
\* and with duplicates kept, of the filtered task lists of the units of its (day,
\* requester); a daily generator is called at most once per key, never with an empty
\* list, and exactly once per key with a non-empty list in a run whose dispatch
\* completes.
C10_DailyRollup ==
    /\ \A i \in 1..Len(calls) : calls[i].op = "daily" =>
        /\ calls[i].tasks = FoldBucket(1, calls[i].period.day, calls[i].requester)
        /\ calls[i].tasks # <<>>
        /\ calls[i].period.hour = 0
        /\ calls[i].fn \in DailyFns
        /\ Cardinality(DailyCallsOf(calls[i].fn, calls[i].period.day,
                                    calls[i].requester)) = 1
    /\ (pc = "updateStatus" \/ HasCall("UpdateStatsStatus")) =>
        \A name \in DailyFns : \A k \in 1..Len(statsToUpdate) :
            FoldBucket(1, statsToUpdate[k].Day, statsToUpdate[k].Requester) # <<>> =>
            Cardinality(DailyCallsOf(name, statsToUpdate[k].Day,
                                     statsToUpdate[k].Requester)) = 1

C10_Witness ==
    /\ pc = "updateStatus"
    /\ \E i \in 1..Len(calls) :
        /\ calls[i].op = "daily"
        /\ calls[i].tasks = <<TaskA, TaskB, TaskA, TaskB>>

\* the daily buckets exist once the rollup was built (the daily loop was entered)
RollupBuilt == pc \in {"dailyFns", "dailyDays", "dailyReqs", "updateStatus"} \/ HasCall("UpdateStatsStatus")

\* the unfiltered task lists of the units whose Hour is on date d, of one requester
RECURSIVE TasksOfDate(_, _, _)
TasksOfDate(k, d, requester) ==
    IF k > Len(statsToUpdate) THEN <<>>
    ELSE (IF statsToUpdate[k].Hour.day = d /\ statsToUpdate[k].Requester = requester
          THEN statsToUpdate[k].Tasks
          ELSE <<>>) \o TasksOfDate(k + 1, d, requester)

RECURSIVE SumLen(_, _)
SumLen(f, keys) ==
    IF keys = {} THEN 0
    ELSE LET x == CHOOSE y \in keys : TRUE
         IN  Len(f[x]) + SumLen(f, keys \ {x})

BucketKeys == {<<d, r>> \in (DOMAIN dailyStats) \X {"patch", "mainline"} : r \in DOMAIN dailyStats[d]}

\* C11: a daily bucket holds the tasks of exactly the units whose Hour is on the
\* bucket's date (and of its requester), so no bucket mixes two dates; every fetched
\* unit is in the bucket of the date of its Hour, and the buckets together hold each
\* unit's tasks once.
C11_DayAssignment ==
    /\ \A key \in BucketKeys :
        dailyStats[key[1]][key[2]] = TasksOfDate(1, key[1], key[2])
    /\ RollupBuilt =>
        /\ \A k \in 1..Len(statsToUpdate) :
            <<statsToUpdate[k].Hour.day, statsToUpdate[k].Requester>> \in BucketKeys
        /\ SumLen([key \in BucketKeys |-> dailyStats[key[1]][key[2]]], BucketKeys)
             = SumLen([k \in 1..Len(statsToUpdate) |-> statsToUpdate[k].Tasks],
                      1..Len(statsToUpdate))

\* two units of one requester on two dates, folded into two buckets
C11_Witness ==
    /\ RollupBuilt
    /\ \E i, j \in 1..Len(statsToUpdate) :
        /\ statsToUpdate[i].Requester = statsToUpdate[j].Requester
        /\ statsToUpdate[i].Hour.day # statsToUpdate[j].Hour.day
        /\ RollupGet(dailyStats, statsToUpdate[i].Hour.day, statsToUpdate[i].Requester)
             = statsToUpdate[i].Tasks
        /\ RollupGet(dailyStats, statsToUpdate[j].Hour.day, statsToUpdate[j].Requester)
             = statsToUpdate[j].Tasks

\* the task names of unit k that no compiled ignore pattern matches, in order
FilteredTasks(k) ==
    SelectSeq(statsToUpdate[k].Tasks,
              LAMBDA task : \A m \in 1..Len(tasksToIgnore) :
                                ~MatchString(tasksToIgnore[m], task))

HourlyCallsOf(name, k) ==
    {i \in 1..Len(calls) : /\ calls[i].op = "hourly" /\ calls[i].fn = name
                           /\ calls[i].requester = statsToUpdate[k].Requester
                           /\ calls[i].period = statsToUpdate[k].Hour}

DispatchComplete == pc = "updateStatus" \/ HasCall("UpdateStatsStatus")

\* C12: every hourly call is the call of a configured hourly generator for one fetched
\* unit, with the unit's project, requester and Hour, the unit's filtered task list
\* (not empty) and the run's timestamp, and is the only such call for that unit; when
\* the dispatch completed without a generator failure each hourly generator was called
\* for every unit whose filtered list is not empty; all generator calls and the
\* checkpoint update carry the same run timestamp.
C12_HourlyDispatch ==
    /\ \A i \in 1..Len(calls) : calls[i].op = "hourly" =>
        /\ calls[i].fn \in HourlyFns
        /\ calls[i].tasks # <<>>
        /\ \E k \in 1..Len(statsToUpdate) :
            /\ HourlyCallsOf(calls[i].fn, k) = {i}
            /\ calls[i].projectId = statsToUpdate[k].ProjectId
            /\ calls[i].tasks = FilteredTasks(k)
    /\ DispatchComplete =>
        \A name \in HourlyFns : \A k \in 1..Len(statsToUpdate) :
            Cardinality(HourlyCallsOf(name, k)) = IF FilteredTasks(k) = <<>> THEN 0 ELSE 1
    /\ \A i, j \in 1..Len(calls) :
        (/\ IsGenerator(calls[i]) \/ calls[i].op = "UpdateStatsStatus"
         /\ IsGenerator(calls[j]) \/ calls[j].op = "UpdateStatsStatus")
        => calls[i].jobTime = calls[j].jobTime /\ calls[i].jobTime = jobTime

\* a completed run with two units: one filtered to nothing and not dispatched, one
\* dispatched with its task list
C12_Witness ==
    /\ HasCall("UpdateStatsStatus")
    /\ \E k, n \in 1..Len(statsToUpdate) :
        /\ statsToUpdate[k].Tasks # <<>>
        /\ FilteredTasks(k) = <<>>
        /\ HourlyCallsOf("test", k) = {}
        /\ \E i \in HourlyCallsOf("test", n) :
            calls[i].tasks = FilteredTasks(n) /\ calls[i].tasks # <<>>

\* what the claim calls whitespace
Whitespace == {" ", "\t", "\n", "\r"}

NonEmptyTrimmed(patterns) ==
    SelectSeq([k \in 1..Len(patterns) |-> Trim(patterns[k], Whitespace)],
              LAMBDA p : p # <<>>)

\* getTasksToIgnore returned: the project ref was read and the patterns were compiled
CompileReturned ==
    /\ HasCall("FindOneProjectRef")
    /\ calls[Len(calls)].op = "FindOneProjectRef"
    /\ calls[Len(calls)].ok
    /\ pc \in {"findStats", "done"}

\* C13: the compiled matchers are the patterns that are not empty once whitespace
\* (spaces, tabs, newlines) is trimmed from both ends, one matcher for each, in order;
\* the compilation fails, with no matcher list, exactly when one of those is not a
\* valid expression.
C13_Compilation ==
    CompileReturned =>
        LET kept == NonEmptyTrimmed(filePatterns)
            invalid == \E k \in 1..Len(kept) : Compile(kept[k]).err
        IN  /\ (pc = "done") = invalid
            /\ pc = "done" => tasksToIgnore = <<>> /\ jobErrors = 1
            /\ pc = "findStats" =>
                /\ Len(tasksToIgnore) = Len(kept)
                /\ \A k \in 1..Len(kept) : tasksToIgnore[k] = Compile(kept[k]).re

Succeeded(r) == reqs[r].pc = "done" /\ reqs[r].status = StatusOK

\* C14: at most one manifest is persisted for a version; a request that responds
\* successfully returns a persisted manifest of its version, so there is exactly one
\* and all successful requests for the version return the same module revisions.
C14_ManifestRace ==
    /\ \A v \in Versions : Cardinality({m \in manifests : m.Id = v}) <= 1
    /\ \A r \in Requests : Succeeded(r) =>
        /\ reqs[r].body \in manifests
        /\ reqs[r].body.Id = reqs[r].task.Version
    /\ \A r1, r2 \in Requests :
        (Succeeded(r1) /\ Succeeded(r2) /\ reqs[r1].task.Version = reqs[r2].task.Version)
        => reqs[r1].body = reqs[r2].body

\* two requests that both found no manifest and both tried to insert; the upstream
\* head moved between their queries, and both returned the one persisted manifest
C14_Witness ==
    \E r1, r2 \in Requests :
        /\ r1 # r2
        /\ Succeeded(r1) /\ Succeeded(r2)
        /\ reqs[r1].currentManifest.nil /\ reqs[r2].currentManifest.nil
        /\ reqs[r1].inserts = 1 /\ reqs[r2].inserts = 1
        /\ reqs[r1].modules # reqs[r2].modules
        /\ reqs[r1].body = reqs[r2].body
        /\ reqs[r1].body.Modules = reqs[r1].modules

Failed(r) == reqs[r].pc = "done" /\ reqs[r].status # StatusOK

\* C15: a request that fails because the project or the version is missing answers
\* 400; one that fails because of the upstream API (token, branch head) or of the
\* manifest collection (first lookup, insert, second lookup) answers 500.
C15_FailureModes ==
    \A r \in Requests : Failed(r) =>
        /\ reqs[r].cause \in {"projectRef", "project", "emptyProject", "emptyVersion"}
            => reqs[r].status = StatusBadRequest
        /\ reqs[r].cause \in {"token", "branch", "find", "insert", "reread"}
            => reqs[r].status = StatusInternalServerError

\* C16: a request whose first lookup found a manifest answers with that manifest, and
\* makes no upstream query and no insert; a request inserts at most once, and only
\* after it queried each declared module once, in declared order; a request that found
\* no manifest and did not fail made exactly those queries and one insert.
C16_FetchOrCreate ==
    \A r \in Requests :
        /\ ~reqs[r].currentManifest.nil =>
            /\ reqs[r].queries = <<>>
            /\ reqs[r].inserts = 0
            /\ reqs[r].pc = "done" /\ reqs[r].status = StatusOK
            /\ reqs[r].body = reqs[r].currentManifest
            /\ reqs[r].body \in manifests
        /\ reqs[r].inserts <= 1
        /\ reqs[r].pc = "insert" \/ reqs[r].inserts = 1 => reqs[r].queries = Modules
        /\ (Succeeded(r) /\ reqs[r].currentManifest.nil) =>
            reqs[r].queries = Modules /\ reqs[r].inserts = 1

\* one request created the manifest after querying both modules, a later one found it
\* and returned it, although the upstream head had moved
C16_Witness ==
    \E r1, r2 \in Requests :
        /\ Succeeded(r1) /\ reqs[r1].currentManifest.nil
        /\ reqs[r1].queries = Modules /\ reqs[r1].inserts = 1
        /\ Succeeded(r2) /\ reqs[r2].currentManifest = reqs[r1].body
        /\ reqs[r2].body = reqs[r1].body
        /\ reqs[r2].queries = <<>>
        /\ \E m \in ModuleNames : heads[m] # reqs[r2].body.Modules[m]

\* C17: whatever the flags and arguments, Execute returns the error "migrations are
\* not enabled in this build", loads no settings, opens no database connection, runs
\* no migration and leaves the command's fields as they were parsed.
C17_MigrationDisabled ==
    cli # <<>> /\ cli.pc = "returned" =>
        /\ cli.err = "migrations are not enabled in this build"
        /\ cli.done = <<>>
        /\ cli \in {[MigrationCommand(conf, uri, dryRun, args) EXCEPT
                        !.pc = "returned", !.err = cli.err] :
                    conf \in ConfigPaths, uri \in MongoDBURIs, dryRun \in BOOLEAN,
                    args \in ArgLists}

C17_Witness ==
    /\ cli # <<>>
    /\ cli.pc = "returned"
    /\ cli.DryRun
    /\ cli.MongoDBURI = "mongodb://a"
    /\ cli.ConfigPath = "/tmp/settings.yml"

Running == pc \notin {"idle", "done"}

\* the call that made the run abort is the last one: a call that returned an error, or
\* the read of a project ref whose patterns do not compile
AbortedAtLastCall ==
    /\ calls # <<>>
    /\ \A k \in 1..(Len(calls) - 1) : calls[k].ok
    /\ \/ ~calls[Len(calls)].ok
       \/ calls[Len(calls)].op = "FindOneProjectRef" /\ HasInvalidPattern(filePatterns)

RunOutcome ==
    /\ jobErrors <= 1
    /\ pc = "done" => (jobErrors = 0 <=> \E i \in Updates : calls[i].ok)
    /\ jobErrors = 1 => pc = "done" /\ AbortedAtLastCall
    /\ \A i \in 1..Len(calls) : ~calls[i].ok => i = Len(calls) /\ jobErrors = 1

\* C18: a run that started reaches its end, where it is marked complete; it ends with
\* no recorded error exactly when it issued the checkpoint update and the update
\* succeeded; a run that aborts records one error, at the call that failed, and makes
\* no call after it.
C18_RunOutcome == [](RunOutcome) /\ (Running ~> pc = "done")

\* a run that aborted at the checkpoint update, after a generator call
C18_Witness ==
    /\ pc = "done"
    /\ jobErrors = 1
    /\ calls[Len(calls)].op = "UpdateStatsStatus"
    /\ \E i \in 1..Len(calls) : IsGenerator(calls[i])
    /\ store = storeAtStart

WindowSet == syncFromTime # NoTime /\ syncToTime # NoTime
Committing == pc = "done" /\ jobErrors = 0 /\ HasCall("UpdateStatsStatus")

\* C19: the `from` of a run is the `to` committed by the last successful run before
\* it (the initial checkpoint if none), and a run that commits makes its own `to` the
\* committed one; a window never ends before it starts, so the windows of successive
\* successful runs cover the timeline without gap or overlap; the window of a run that
\* aborted starts where the window of the next run starts.
C19_ContiguousWindows ==
    WindowSet =>
        /\ IF Committing THEN syncFromTime = storeAtStart /\ committed = syncToTime
                         ELSE syncFromTime = committed
        /\ syncFromTime <= syncToTime
        /\ prev.window => prev.from = syncFromTime

SteadyCatchUp ==
    /\ store <= clock
    /\ store = Min(clock, runsOk * maxSyncDuration)
    /\ Committing =>
        /\ store = storeAtStart + Min(clock - storeAtStart, maxSyncDuration)
        /\ storeAtStart < clock => store > storeAtStart

\* C20: with the clock held at any reading at or after the initial checkpoint, a run
\* that succeeds while the checkpoint is behind moves it forward by min(now -
\* checkpoint, 7 days), after k successful runs the checkpoint is min(now, initial + k *
\* 7 days), and if the job keeps being invoked and its runs keep succeeding the
\* checkpoint reaches the clock and stays there.
C20_CatchUp ==
    /\ [](SteadyCatchUp)
    /\ ([]<>(pc = "idle") /\ []<>(pc = "done" /\ jobErrors = 0)) => <>[](store = clock)

\* the checkpoint caught up with a clock more than two windows ahead, in three runs
C20_Witness ==
    /\ clock > 2 * maxSyncDuration
    /\ store = clock
    /\ runsOk = 3
    /\ Committing
    /\ storeAtStart = 2 * maxSyncDuration

====
